---------------------------- MODULE Spec2Model ----------------------------
(***************************************************************************)
(* A model of GalSim's table interpolation engine (Table.cpp): ArgVec, the *)
(* one-dimensional Table and the two-dimensional Table2D.                  *)
(*                                                                         *)
(* A C++ double is modelled as a rational <<num, den>> in lowest terms     *)
(* with den > 0, so equality of values is equality of pairs.  The          *)
(* arithmetic of a one-dimensional table is done at the table's precision  *)
(* prec: with prec = p > 0 the result of every operation is rounded to the *)
(* nearest value with a p-bit significand, ties to even, as IEEE-754       *)
(* rounds a double to 53 bits; with prec = 0 no operation rounds (the      *)
(* arithmetic of the reals).  The two-dimensional tables are modelled with *)
(* prec = 0 only.  C++ indices are 0-based; a C++ array a[0..n-1] is the   *)
(* sequence a with a[k] stored at position k+1 (operator At).              *)
(***************************************************************************)
EXTENDS Integers, Sequences, FiniteSets, TLC

VARIABLES
    tab,      \* the table object most recently constructed (or NoTable)
    res       \* what the most recent operation returned to its caller

vars == <<tab, res>>

-----------------------------------------------------------------------------
(* Bounds of the model.                                                    *)

\* largest number of nodes of a generated grid
MaxN == 4
\* largest node position of a generated grid (nodes are integers 0..MaxArg)
MaxArg == 4
\* largest number of points of a batch (interpMany, gradientMany)
MaxBatch == 2
\* number of significand bits of the rounding arithmetic
Mantissa == 4

-----------------------------------------------------------------------------
(* Rational arithmetic; the C++ double operations are FAdd, FSub, FMul and *)
(* FDiv below, which round the exact result to the precision p.            *)

RECURSIVE GCD(_, _)
GCD(a, b) ==
    IF b = 0 THEN a ELSE GCD(b, a % b)

IAbs(n) ==
    IF n < 0 THEN -n ELSE n

\* (values that are used more than once are handed on as operator
\* arguments, which are evaluated once)

\* n/d with a positive denominator, g the greatest common divisor
RReduce(n, d, g) ==
    IF d < 0 THEN <<(-n) \div g, (-d) \div g>> ELSE <<n \div g, d \div g>>

\* the rational n/d in lowest terms, d # 0
RNorm(n, d) ==
    RReduce(n, d, GCD(IAbs(n), IAbs(d)))

\* the integer n as a double
R(n) ==
    <<n, 1>>

RAddOver(x, y, g) ==
    RNorm(x[1] * (y[2] \div g) + y[1] * (x[2] \div g), x[2] * (y[2] \div g))

RAdd(x, y) ==
    IF x[2] = 1 /\ y[2] = 1 THEN <<x[1] + y[1], 1>>
    ELSE RAddOver(x, y, GCD(x[2], y[2]))

RNeg(x) ==
    <<-x[1], x[2]>>

RSub(x, y) ==
    RAdd(x, RNeg(y))

RMulReduced(a, b) ==
    <<a[1] * b[1], a[2] * b[2]>>

RMul(x, y) ==
    IF x[2] = 1 /\ y[2] = 1 THEN <<x[1] * y[1], 1>>
    ELSE RMulReduced(RNorm(x[1], y[2]), RNorm(y[1], x[2]))

RDiv(x, y) ==
    RMul(x, RNorm(y[2], y[1]))

RLt(x, y) ==
    x[1] * y[2] < y[1] * x[2]

RLe(x, y) ==
    x[1] * y[2] <= y[1] * x[2]

RAbs(x) ==
    <<IAbs(x[1]), x[2]>>

\* int(std::ceil(x))
RCeil(x) ==
    -((-x[1]) \div x[2])

\* int(std::floor(x))
RFloor(x) ==
    x[1] \div x[2]

Zero == R(0)
One == R(1)
Half == <<1, 2>>

TwoTo(p) ==
    2 ^ p

\* round to nearest, ties to even: the quotient q of n by d, remainder r
FlRound(q, r, d) ==
    IF 2 * r > d \/ (2 * r = d /\ q % 2 = 1) THEN q + 1 ELSE q

\* s * (n/d) * (up/down) rounded to p bits, where n/d > 0 is the value scaled
\* by powers of two until 2^(p-1) <= n/d < 2^p
RECURSIVE FlScaled(_, _, _, _, _, _)
FlScaled(p, s, n, d, up, down) ==
    IF n >= TwoTo(p) * d THEN FlScaled(p, s, n, 2 * d, 2 * up, down)
    ELSE IF n < TwoTo(p - 1) * d THEN FlScaled(p, s, 2 * n, d, up, 2 * down)
    ELSE RNorm(s * FlRound(n \div d, n % d, d) * up, down)

\* the double nearest to the real x at precision p (p = 0: x itself)
Fl(p, x) ==
    IF p = 0 \/ x[1] = 0 THEN x
    ELSE IF x[2] = 1 /\ IAbs(x[1]) < TwoTo(p) THEN x
    ELSE FlScaled(p, IF x[1] < 0 THEN -1 ELSE 1, IAbs(x[1]), x[2], 1, 1)

\* double operator+, operator-, operator*, operator/
FAdd(p, x, y) ==
    Fl(p, RAdd(x, y))

FSub(p, x, y) ==
    Fl(p, RSub(x, y))

FMul(p, x, y) ==
    Fl(p, RMul(x, y))

FDiv(p, x, y) ==
    Fl(p, RDiv(x, y))

\* element k (0-based) of a C++ array
At(a, k) ==
    a[k + 1]

IMax(a, b) ==
    IF a > b THEN a ELSE b

IMin(a, b) ==
    IF a < b THEN a ELSE b

-----------------------------------------------------------------------------
(* ArgVec                                                                  *)

\* const double tolerance = 0.01 in ArgVec::ArgVec
tolerance(p) ==
    Fl(p, <<1, 100>>)

front(vec) ==
    R(At(vec, 0))

back(vec) ==
    R(At(vec, Len(vec) - 1))

\* ArgVec::operator[]
Arg(av, i) ==
    R(At(av.vec, i))

\* std::abs((_vec[i] - _vec[0])/_da - i) > tolerance
offGrid(vec, p, da, i) ==
    RLt(tolerance(p),
        RAbs(FSub(p, FDiv(p, FSub(p, R(At(vec, i)), R(At(vec, 0))), da), R(i))))

\* the members ArgVec::ArgVec computes from _da
ArgVecOf(vec, p, da) ==
    [ vec |-> vec,
      n |-> Len(vec),
      prec |-> p,
      da |-> da,
      equalSpaced |-> \A i \in 1 .. (Len(vec) - 1) : ~ offGrid(vec, p, da, i),
      lastIndex |-> 1 ]

\* ArgVec::ArgVec(vec, n): vec has n >= 2 strictly increasing nodes; p is the
\* precision of the arithmetic
ArgVec(vec, p) ==
    ArgVecOf(vec, p, FDiv(p, FSub(p, back(vec), front(vec)), R(Len(vec) - 1)))

\* while (a > _vec[i]) ++i;
RECURSIVE StepAhead(_, _, _)
StepAhead(av, a, i) ==
    IF RLt(Arg(av, i), a) THEN StepAhead(av, a, i + 1) ELSE i

\* while (a < _vec[i-1]) --i;
RECURSIVE StepBack(_, _, _)
StepBack(av, a, i) ==
    IF RLt(a, Arg(av, i - 1)) THEN StepBack(av, a, i - 1) ELSE i

\* std::upper_bound(begin()+lo, begin()+hi, a): offset of the first element > a
UpperBound(av, lo, hi, a) ==
    LET hits == {p \in lo .. (hi - 1) : RLt(a, Arg(av, p))}
    IN  IF hits = {} THEN hi ELSE CHOOSE p \in hits : \A q \in hits : p <= q

\* std::lower_bound(begin()+lo, begin()+hi, a): offset of the first element >= a
LowerBound(av, lo, hi, a) ==
    LET hits == {p \in lo .. (hi - 1) : RLe(a, Arg(av, p))}
    IN  IF hits = {} THEN hi ELSE CHOOSE p \in hits : \A q \in hits : p <= q

\* a result of upperIndex: the index returned and the hint left behind
Idx(i, last) ==
    [i |-> i, lastIndex |-> last]

\* if (i >= _n) --i; if (i == 0) ++i;
ClampIndex(i, n) ==
    IF i >= n THEN (IF i - 1 = 0 THEN 1 ELSE i - 1)
    ELSE IF i = 0 THEN 1 ELSE i

\* _lastIndex = p-begin(); return _lastIndex;
Found(p) ==
    Idx(p, p)

\* the equal-spaced branch of upperIndex (the hint is not touched)
upperIndexEqualSpaced(av, a) ==
    Idx(StepBack(av, a,
                 StepAhead(av, a,
                           ClampIndex(RCeil(FDiv(av.prec,
                                                 FSub(av.prec, a, front(av.vec)),
                                                 av.da)),
                                      av.n))),
        av.lastIndex)

\* a go-lower branch that takes the previous bracket without looking further
upperIndexGoLowerNoSearch(av, a) ==
    Idx(av.lastIndex - 1, av.lastIndex - 1)

\* the branch a < _vec[_lastIndex-1] of upperIndex
upperIndexGoLower(av, a) ==
    LET last == av.lastIndex
    IN  IF RLe(Arg(av, last - 2), a)
        THEN Idx(last - 1, last - 1)
        ELSE Found(UpperBound(av, 0, last - 1, a))

\* a go-higher branch whose binary search leaves the hint where it was
upperIndexGoHigherKeepsHint(av, a) ==
    LET last == av.lastIndex
    IN  IF RLe(a, Arg(av, last + 1))
        THEN Idx(last + 1, last + 1)
        ELSE Idx(LowerBound(av, last + 1, av.n, a), last)

\* the branch a > _vec[_lastIndex] of upperIndex
upperIndexGoHigher(av, a) ==
    LET last == av.lastIndex
    IN  IF RLe(a, Arg(av, last + 1))
        THEN Idx(last + 1, last + 1)
        ELSE Found(LowerBound(av, last + 1, av.n, a))

\* the non-equal-spaced branch of upperIndex
upperIndexHinted(av, a) ==
    LET last == av.lastIndex
    IN  IF RLt(a, Arg(av, last - 1)) THEN upperIndexGoLower(av, a)
        ELSE IF RLt(Arg(av, last), a) THEN upperIndexGoHigher(av, a)
        ELSE Idx(last, last)

\* an upperIndex whose two range checks return each other's bracket
upperIndexSwappedEnds(av, a) ==
    IF RLt(a, front(av.vec)) THEN Idx(av.n - 1, av.lastIndex)
    ELSE IF RLt(back(av.vec), a) THEN Idx(1, av.lastIndex)
    ELSE IF av.equalSpaced THEN upperIndexEqualSpaced(av, a)
    ELSE upperIndexHinted(av, a)

\* ArgVec::upperIndex(a)
upperIndex(av, a) ==
    IF RLt(a, front(av.vec)) THEN Idx(1, av.lastIndex)
    ELSE IF RLt(back(av.vec), a) THEN Idx(av.n - 1, av.lastIndex)
    ELSE IF av.equalSpaced THEN upperIndexEqualSpaced(av, a)
    ELSE upperIndexHinted(av, a)

-----------------------------------------------------------------------------
(* Table::TableImpl                                                        *)

\* the members of enum Table::interpolant
Modes1D == {"linear", "floor", "ceil", "nearest", "spline"}

NoTable == [kind |-> "none"]

Val(t, i) ==
    R(At(t.vals, i))

\* (v[hi] - v[lo]) / (x[hi] - x[lo])
slope(p, vec, vals, lo, hi) ==
    FDiv(p, FSub(p, R(At(vals, hi)), R(At(vals, lo))),
            FSub(p, R(At(vec, hi)), R(At(vec, lo))))

\* 6. * ((v[i+1]-v[i])/(x[i+1]-x[i]) - (v[i]-v[i-1])/(x[i]-x[i-1]))
splineRhs(av, vals, i) ==
    FMul(av.prec, R(6),
         FSub(av.prec, slope(av.prec, av.vec, vals, i, i + 1),
                       slope(av.prec, av.vec, vals, i - 1, i)))

\* the n == 3 branch of setupSpline: y2[1] in closed form
splineThreePoint(av, vals) ==
    FDiv(av.prec,
         FMul(av.prec, R(3),
              FSub(av.prec, slope(av.prec, av.vec, vals, 1, 2),
                            slope(av.prec, av.vec, vals, 0, 1))),
         FSub(av.prec, Arg(av, 2), Arg(av, 0)))

\* a pivot without the elimination step bb -= a * c[i-1]
thomasPivotNoElimination(av, i, a, ci) ==
    FMul(av.prec, R(2), FSub(av.prec, Arg(av, i + 2), Arg(av, i)))

\* bb = 2. * (_args[i+2] - _args[i]); bb -= a * c[i-1];
thomasPivot(av, i, a, ci) ==
    FSub(av.prec, FMul(av.prec, R(2), FSub(av.prec, Arg(av, i + 2), Arg(av, i))),
                  FMul(av.prec, a, ci))

\* one pass of the forward loop after _y2[i] /= bb, for i < n-2:
\* c[i-1] = a / bb, the next pivot, _y2[i+1] -= a * _y2[i]
RECURSIVE thomasForward(_, _, _, _, _), thomasStep(_, _, _, _, _, _)
thomasStep(av, y2, c, i, a, ci) ==
    thomasForward(av,
                  [y2 EXCEPT ![i + 2] = FSub(av.prec, @, FMul(av.prec, a, At(y2, i)))],
                  [c EXCEPT ![i] = ci],
                  thomasPivot(av, i, a, ci),
                  i + 1)

\* the forward elimination loop of setupSpline, from index i on
thomasForward(av, y2, c, bb, i) ==
    IF i = av.n - 2
    THEN [y2 |-> [y2 EXCEPT ![i + 1] = FDiv(av.prec, @, bb)], c |-> c]
    ELSE thomasStep(av, [y2 EXCEPT ![i + 1] = FDiv(av.prec, @, bb)], c, i,
                    FSub(av.prec, Arg(av, i + 1), Arg(av, i)),
                    FDiv(av.prec, FSub(av.prec, Arg(av, i + 1), Arg(av, i)), bb))

\* the back substitution loop of setupSpline, from index i down to 1
RECURSIVE thomasBack(_, _, _, _)
thomasBack(p, y2, c, i) ==
    IF i <= 0 THEN y2
    ELSE thomasBack(p,
                    [y2 EXCEPT ![i + 1] =
                         FSub(p, @, FMul(p, At(c, i - 1), At(y2, i + 1)))],
                    c, i - 1)

\* the tridiagonal solve of setupSpline for n >= 4, computed as the Thomas
\* loops compute it; with prec = 0 this is the solution of the system, which
\* is what the other backend (rhs / M) computes too
splineSolve(av, vals) ==
    LET n == av.n
        y0 == [k \in 1 .. n |->
                 IF k = 1 \/ k = n THEN Zero ELSE splineRhs(av, vals, k - 1)]
        c0 == [k \in 1 .. (n - 3) |-> Zero]
        bb == FMul(av.prec, R(2), FSub(av.prec, Arg(av, 2), Arg(av, 0)))
        fw == thomasForward(av, y0, c0, bb, 1)
    IN  thomasBack(av.prec, fw.y2, fw.c, n - 3)

\* Table::TableImpl::setupSpline().  tmv: the build defines USE_TMV; libThrows:
\* whether the TMV library rejects a 0 x 0 band matrix with one off-diagonal.
\* With n = 2 the other build evaluates std::vector<double> c(_n-3), a vector
\* of (size_t)(-1) elements, which throws std::length_error.
setupSpline(av, vals, tmv, libThrows) ==
    LET n == av.n
    IN  IF n = 3
        THEN [raised |-> FALSE, y2 |-> <<Zero, splineThreePoint(av, vals), Zero>>]
        ELSE IF n < 3
        THEN IF tmv /\ ~ libThrows
             THEN [raised |-> FALSE, y2 |-> [k \in 1 .. n |-> Zero]]
             ELSE [raised |-> TRUE, y2 |-> <<>>]
        ELSE [raised |-> FALSE, y2 |-> splineSolve(av, vals)]

\* a constructor whose switch falls back to linear for an unknown tag
TableImplDefaultLinear(args, vals, in, tmv, libThrows, p) ==
    LET av == ArgVec(args, p)
        sp == setupSpline(av, vals, tmv, libThrows)
    IN  IF in = "spline" /\ sp.raised THEN [raised |-> TRUE, obj |-> NoTable]
        ELSE [ raised |-> FALSE,
               obj |-> [ kind |-> "Table",
                         iType |-> IF in \in Modes1D THEN in ELSE "linear",
                         args |-> av,
                         vals |-> vals,
                         n |-> Len(args),
                         y2 |-> IF in = "spline" THEN sp.y2 ELSE <<>> ] ]

\* a constructor that sets up the second derivatives whatever the mode
TableImplAlwaysSpline(args, vals, in, tmv, libThrows, p) ==
    LET av == ArgVec(args, p)
        sp == setupSpline(av, vals, tmv, libThrows)
    IN  IF in \notin Modes1D THEN [raised |-> TRUE, obj |-> NoTable]
        ELSE IF in = "spline" /\ sp.raised THEN [raised |-> TRUE, obj |-> NoTable]
        ELSE [ raised |-> FALSE,
               obj |-> [ kind |-> "Table",
                         iType |-> in,
                         args |-> av,
                         vals |-> vals,
                         n |-> Len(args),
                         y2 |-> IF sp.raised THEN <<>> ELSE sp.y2 ] ]

\* Table::TableImpl::TableImpl(args, vals, N, in): the object built, or the
\* exception leaving the constructor; p is the precision of its arithmetic
TableImpl(args, vals, in, tmv, libThrows, p) ==
    LET av == ArgVec(args, p)
        sp == setupSpline(av, vals, tmv, libThrows)
    IN  IF in \notin Modes1D THEN [raised |-> TRUE, obj |-> NoTable]
        ELSE IF in = "spline" /\ sp.raised THEN [raised |-> TRUE, obj |-> NoTable]
        ELSE [ raised |-> FALSE,
               obj |-> [ kind |-> "Table",
                         iType |-> in,
                         args |-> av,
                         vals |-> vals,
                         n |-> Len(args),
                         y2 |-> IF in = "spline" THEN sp.y2 ELSE <<>> ] ]

\* the two weights of the linear formula exchanged
linearCombineSwapped(p, vi, vim1, ax) ==
    FAdd(p, FMul(p, vi, ax), FMul(p, vim1, FSub(p, One, ax)))

\* return _vals[i]*bx + _vals[i-1]*ax with bx = 1.0 - ax
linearCombine(p, vi, vim1, ax) ==
    FAdd(p, FMul(p, vi, FSub(p, One, ax)), FMul(p, vim1, ax))

\* Table::TableImpl::linearInterpolate
linearInterpolate(t, a, i) ==
    linearCombine(t.args.prec, Val(t, i), Val(t, i - 1),
                  FDiv(t.args.prec, FSub(t.args.prec, Arg(t.args, i), a),
                       FSub(t.args.prec, Arg(t.args, i), Arg(t.args, i - 1))))

\* Table::TableImpl::floorInterpolate
floorInterpolate(t, a, i) ==
    LET j == IF a = Arg(t.args, i) THEN i + 1 ELSE i
    IN  Val(t, j - 1)

\* a ceil without the step to the previous node at a == _args[i-1]
ceilInterpolateNoShift(t, a, i) ==
    Val(t, i)

\* Table::TableImpl::ceilInterpolate
ceilInterpolate(t, a, i) ==
    LET j == IF a = Arg(t.args, i - 1) THEN i - 1 ELSE i
    IN  Val(t, j)

\* a nearest whose comparison is <= : an equidistant a goes to node i-1
nearestInterpolateLe(t, a, i) ==
    LET j == IF RLe(FSub(t.args.prec, a, Arg(t.args, i - 1)),
                    FSub(t.args.prec, Arg(t.args, i), a))
             THEN i - 1 ELSE i
    IN  Val(t, j)

\* Table::TableImpl::nearestInterpolate
nearestInterpolate(t, a, i) ==
    LET j == IF RLt(FSub(t.args.prec, a, Arg(t.args, i - 1)),
                    FSub(t.args.prec, Arg(t.args, i), a))
             THEN i - 1 ELSE i
    IN  Val(t, j)

\* (1./6.) * aa * bb * ((aa+h)*_y2[i-1] + (bb+h)*_y2[i])
splineCurvature(p, aa, bb, h, y2lo, y2hi) ==
    FMul(p, FMul(p, FMul(p, Fl(p, <<1, 6>>), aa), bb),
            FAdd(p, FMul(p, FAdd(p, aa, h), y2lo), FMul(p, FAdd(p, bb, h), y2hi)))

\* (aa*_vals[i-1] + bb*_vals[i] - curvature) / h
splineCombine(p, aa, bb, h, vlo, vhi, y2lo, y2hi) ==
    FDiv(p, FSub(p, FAdd(p, FMul(p, aa, vlo), FMul(p, bb, vhi)),
                    splineCurvature(p, aa, bb, h, y2lo, y2hi)),
            h)

\* bb = h - aa
splineWeights(p, t, i, aa, h) ==
    splineCombine(p, aa, FSub(p, h, aa), h,
                  Val(t, i - 1), Val(t, i), At(t.y2, i - 1), At(t.y2, i))

\* Table::TableImpl::splineInterpolate (the compiled #else branch)
splineInterpolate(t, a, i) ==
    splineWeights(t.args.prec, t, i,
                  FSub(t.args.prec, Arg(t.args, i), a),
                  FSub(t.args.prec, Arg(t.args, i), Arg(t.args, i - 1)))

\* (this->*interpolate)(a, i): the member function chosen by the constructor
interpolate(t, a, i) ==
    CASE t.iType = "linear" -> linearInterpolate(t, a, i)
      [] t.iType = "floor" -> floorInterpolate(t, a, i)
      [] t.iType = "ceil" -> ceilInterpolate(t, a, i)
      [] t.iType = "nearest" -> nearestInterpolate(t, a, i)
      [] t.iType = "spline" -> splineInterpolate(t, a, i)

\* double val = (this->*interpolate)(a, i) for the bracket u upperIndex gave
implLookupAt(t, a, u) ==
    [i |-> u.i, val |-> interpolate(t, a, u.i), lastIndex |-> u.lastIndex]

\* Table::TableImpl::lookup(a): the bracket, the value and the hint left behind
implLookup(t, a) ==
    implLookupAt(t, a, upperIndex(t.args, a))

\* the table t with its ArgVec's hint set to last
WithHint(t, last) ==
    [t EXCEPT !.args.lastIndex = last]

argMin(t) ==
    front(t.args.vec)

argMax(t) ==
    back(t.args.vec)

\* an operator() whose domain excludes its two endpoints
tableCallOpenDomain(t, a) ==
    IF RLe(a, argMin(t)) \/ RLe(argMax(t), a)
    THEN [i |-> 0, val |-> Zero, lastIndex |-> t.args.lastIndex]
    ELSE implLookup(t, a)

\* Table::operator()(a): zero outside [argMin(), argMax()], else lookup(a);
\* i = 0 records that no bracket was resolved
tableCall(t, a) ==
    IF RLt(a, argMin(t)) \/ RLt(argMax(t), a)
    THEN [i |-> 0, val |-> Zero, lastIndex |-> t.args.lastIndex]
    ELSE implLookup(t, a)

\* Table::interpMany: the loop from element k on; is and valvec collect the
\* brackets resolved and the values stored so far
RECURSIVE interpMany(_, _, _, _, _), interpManyStore(_, _, _, _, _, _)
interpMany(t, argvec, k, is, valvec) ==
    IF k >= Len(argvec)
    THEN [is |-> is, valvec |-> valvec, lastIndex |-> t.args.lastIndex]
    ELSE interpManyStore(t, argvec, k, is, valvec, implLookup(t, At(argvec, k)))

\* valvec[k] = _pimpl->lookup(argvec[k]), r being what that lookup gave
interpManyStore(t, argvec, k, is, valvec, r) ==
    interpMany(WithHint(t, r.lastIndex), argvec, k + 1,
               Append(is, r.i), Append(valvec, r.val))

-----------------------------------------------------------------------------
(* Table2D: T2DCRTP<T> and the seven strategy classes                      *)

\* the members of enum Table2D::interpolant
Modes2D ==
    {"floor", "ceil", "nearest", "linear", "cubic", "cubicConvolve", "interpolant2d"}

\* _vals[ix*_ny+iy]
V(t, ix, iy) ==
    R(At(t.vals, ix * t.ny + iy))

\* if (x == _xargs[i]) i++;
floorIndex(av, a, i) ==
    IF a = Arg(av, i) THEN i + 1 ELSE i

\* if (x == _xargs[i-1]) i--;
ceilIndex(av, a, i) ==
    IF a = Arg(av, i - 1) THEN i - 1 ELSE i

\* if ((x - _xargs[i-1]) < (_xargs[i] - x)) i--;
nearestIndex(av, a, i) ==
    IF RLt(RSub(a, Arg(av, i - 1)), RSub(Arg(av, i), a)) THEN i - 1 ELSE i

\* T2DFloor::interp
floorInterp(t, x, y, i, j) ==
    V(t, floorIndex(t.xargs, x, i) - 1, floorIndex(t.yargs, y, j) - 1)

\* a ceil that steps to the previous node on the x axis only
ceilInterpNoShiftY(t, x, y, i, j) ==
    V(t, ceilIndex(t.xargs, x, i), j)

\* T2DCeil::interp
ceilInterp(t, x, y, i, j) ==
    V(t, ceilIndex(t.xargs, x, i), ceilIndex(t.yargs, y, j))

\* T2DNearest::interp
nearestInterp(t, x, y, i, j) ==
    V(t, nearestIndex(t.xargs, x, i), nearestIndex(t.yargs, y, j))

\* a weighted sum in which the corners (i, j-1) and (i-1, j) have each
\* other's weight
bilinearSumCrossed(t, i, j, ax, ay, bx, by) ==
    RAdd(RAdd(RAdd(RMul(RMul(V(t, i - 1, j - 1), ax), ay),
                   RMul(RMul(V(t, i, j - 1), ax), by)),
              RMul(RMul(V(t, i - 1, j), bx), ay)),
         RMul(RMul(V(t, i, j), bx), by))

\* the weighted sum T2DLinear::interp returns
bilinearSum(t, i, j, ax, ay, bx, by) ==
    RAdd(RAdd(RAdd(RMul(RMul(V(t, i - 1, j - 1), ax), ay),
                   RMul(RMul(V(t, i, j - 1), bx), ay)),
              RMul(RMul(V(t, i - 1, j), ax), by)),
         RMul(RMul(V(t, i, j), bx), by))

\* double bx = 1.0 - ax; double by = 1.0 - ay;
bilinearWeights(t, i, j, ax, ay) ==
    bilinearSum(t, i, j, ax, ay, RSub(One, ax), RSub(One, ay))

\* T2DLinear::interp
linearInterp(t, x, y, i, j) ==
    bilinearWeights(t, i, j,
        RDiv(RSub(Arg(t.xargs, i), x), RSub(Arg(t.xargs, i), Arg(t.xargs, i - 1))),
        RDiv(RSub(Arg(t.yargs, j), y), RSub(Arg(t.yargs, j), Arg(t.yargs, j - 1))))

\* T2DLinear::grad
linearGrad(t, x, y, i, j) ==
    LET dx == RSub(Arg(t.xargs, i), Arg(t.xargs, i - 1))
        dy == RSub(Arg(t.yargs, j), Arg(t.yargs, j - 1))
        f00 == V(t, i - 1, j - 1)
        f01 == V(t, i - 1, j)
        f10 == V(t, i, j - 1)
        f11 == V(t, i, j)
        ax == RDiv(RSub(Arg(t.xargs, i), x), RSub(Arg(t.xargs, i), Arg(t.xargs, i - 1)))
        bx == RSub(One, ax)
        ay == RDiv(RSub(Arg(t.yargs, j), y), RSub(Arg(t.yargs, j), Arg(t.yargs, j - 1)))
        by == RSub(One, ay)
    IN  [ dfdx |-> RDiv(RAdd(RMul(RSub(f10, f00), ay), RMul(RSub(f11, f01), by)), dx),
          dfdy |-> RDiv(RAdd(RMul(RSub(f01, f00), ax), RMul(RSub(f11, f10), bx)), dy) ]

\* d + x*(c + x*(b + x*a))
Horner(x, a, b, c, d) ==
    RAdd(d, RMul(x, RAdd(c, RMul(x, RAdd(b, RMul(x, a))))))

\* c + x*(2*b + x*3*a)
HornerGrad(x, a, b, c) ==
    RAdd(c, RMul(x, RAdd(RMul(R(2), b), RMul(RMul(x, R(3)), a))))

\* T2DCubic::oneDSpline
cubicOneDSpline(x, val0, val1, der0, der1) ==
    LET a == RAdd(RAdd(RMul(R(2), RSub(val0, val1)), der0), der1)
        b == RSub(RSub(RMul(R(3), RSub(val1, val0)), RMul(R(2), der0)), der1)
    IN  Horner(x, a, b, der0, val0)

\* T2DCubic::oneDGrad
cubicOneDGrad(x, val0, val1, der0, der1) ==
    LET a == RAdd(RAdd(RMul(R(2), RSub(val0, val1)), der0), der1)
        b == RSub(RSub(RMul(R(3), RSub(val1, val0)), RMul(R(2), der0)), der1)
    IN  HornerGrad(x, a, b, der0)

\* arr[ix*_ny+iy] for one of the grids _vals, _dfdx, _dfdy, _d2fdxdy
G(t, arr, ix, iy) ==
    R(At(arr, ix * t.ny + iy))

\* T2DCubic::interp
cubicInterp(t, x, y, i, j) ==
    LET dxgrid == RSub(Arg(t.xargs, i), Arg(t.xargs, i - 1))
        dygrid == RSub(Arg(t.yargs, j), Arg(t.yargs, j - 1))
        dx == RDiv(RSub(x, Arg(t.xargs, i - 1)), dxgrid)
        dy == RDiv(RSub(y, Arg(t.yargs, j - 1)), dygrid)
        val0 == cubicOneDSpline(dx, V(t, i - 1, j - 1), V(t, i, j - 1),
                                RMul(G(t, t.dfdx, i - 1, j - 1), dxgrid),
                                RMul(G(t, t.dfdx, i, j - 1), dxgrid))
        val1 == cubicOneDSpline(dx, V(t, i - 1, j), V(t, i, j),
                                RMul(G(t, t.dfdx, i - 1, j), dxgrid),
                                RMul(G(t, t.dfdx, i, j), dxgrid))
        der0 == cubicOneDSpline(dx, G(t, t.dfdy, i - 1, j - 1), G(t, t.dfdy, i, j - 1),
                                RMul(G(t, t.d2fdxdy, i - 1, j - 1), dxgrid),
                                RMul(G(t, t.d2fdxdy, i, j - 1), dxgrid))
        der1 == cubicOneDSpline(dx, G(t, t.dfdy, i - 1, j), G(t, t.dfdy, i, j),
                                RMul(G(t, t.d2fdxdy, i - 1, j), dxgrid),
                                RMul(G(t, t.d2fdxdy, i, j), dxgrid))
    IN  cubicOneDSpline(dy, val0, val1, RMul(der0, dygrid), RMul(der1, dygrid))

\* T2DCubic::grad: the x-gradient
cubicGradX(t, x, y, i, j) ==
    LET dxgrid == RSub(Arg(t.xargs, i), Arg(t.xargs, i - 1))
        dygrid == RSub(Arg(t.yargs, j), Arg(t.yargs, j - 1))
        dx == RDiv(RSub(x, Arg(t.xargs, i - 1)), dxgrid)
        dy == RDiv(RSub(y, Arg(t.yargs, j - 1)), dygrid)
        val0 == cubicOneDGrad(dx, V(t, i - 1, j - 1), V(t, i, j - 1),
                              RMul(G(t, t.dfdx, i - 1, j - 1), dxgrid),
                              RMul(G(t, t.dfdx, i, j - 1), dxgrid))
        val1 == cubicOneDGrad(dx, V(t, i - 1, j), V(t, i, j),
                              RMul(G(t, t.dfdx, i - 1, j), dxgrid),
                              RMul(G(t, t.dfdx, i, j), dxgrid))
        der0 == cubicOneDGrad(dx, G(t, t.dfdy, i - 1, j - 1), G(t, t.dfdy, i, j - 1),
                              RMul(G(t, t.d2fdxdy, i - 1, j - 1), dxgrid),
                              RMul(G(t, t.d2fdxdy, i, j - 1), dxgrid))
        der1 == cubicOneDGrad(dx, G(t, t.dfdy, i - 1, j), G(t, t.dfdy, i, j),
                              RMul(G(t, t.d2fdxdy, i - 1, j), dxgrid),
                              RMul(G(t, t.d2fdxdy, i, j), dxgrid))
    IN  RDiv(cubicOneDSpline(dy, val0, val1, RMul(der0, dygrid), RMul(der1, dygrid)),
             dxgrid)

\* T2DCubic::grad: the y-gradient
cubicGradY(t, x, y, i, j) ==
    LET dxgrid == RSub(Arg(t.xargs, i), Arg(t.xargs, i - 1))
        dygrid == RSub(Arg(t.yargs, j), Arg(t.yargs, j - 1))
        dx == RDiv(RSub(x, Arg(t.xargs, i - 1)), dxgrid)
        dy == RDiv(RSub(y, Arg(t.yargs, j - 1)), dygrid)
        val0 == cubicOneDGrad(dy, V(t, i - 1, j - 1), V(t, i - 1, j),
                              RMul(G(t, t.dfdy, i - 1, j - 1), dygrid),
                              RMul(G(t, t.dfdy, i - 1, j), dygrid))
        val1 == cubicOneDGrad(dy, V(t, i, j - 1), V(t, i, j),
                              RMul(G(t, t.dfdy, i, j - 1), dygrid),
                              RMul(G(t, t.dfdy, i, j), dygrid))
        der0 == cubicOneDGrad(dy, G(t, t.dfdx, i - 1, j - 1), G(t, t.dfdx, i - 1, j),
                              RMul(G(t, t.d2fdxdy, i - 1, j - 1), dygrid),
                              RMul(G(t, t.d2fdxdy, i - 1, j), dygrid))
        der1 == cubicOneDGrad(dy, G(t, t.dfdx, i, j - 1), G(t, t.dfdx, i, j),
                              RMul(G(t, t.d2fdxdy, i, j - 1), dygrid),
                              RMul(G(t, t.d2fdxdy, i, j), dygrid))
    IN  RDiv(cubicOneDSpline(dx, val0, val1, RMul(der0, dxgrid), RMul(der1, dxgrid)),
             dygrid)

\* T2DCubic::grad
cubicGrad(t, x, y, i, j) ==
    [dfdx |-> cubicGradX(t, x, y, i, j), dfdy |-> cubicGradY(t, x, y, i, j)]

\* T2DCubicConvolution::oneDSpline
convOneDSpline(x, fm1, f0, f1, f2) ==
    LET a == RAdd(RAdd(RNeg(fm1), RMul(R(3), RSub(f0, f1))), f2)
        b == RSub(RAdd(RSub(RMul(R(2), fm1), RMul(R(5), f0)), RMul(R(4), f1)), f2)
        c == RSub(f1, fm1)
        d == RMul(R(2), f0)
    IN  RMul(Half, Horner(x, a, b, c, d))

\* T2DCubicConvolution::oneDGrad
convOneDGrad(x, fm1, f0, f1, f2) ==
    LET a == RAdd(RAdd(RNeg(fm1), RMul(R(3), RSub(f0, f1))), f2)
        b == RSub(RAdd(RSub(RMul(R(2), fm1), RMul(R(5), f0)), RMul(R(4), f1)), f2)
        c == RSub(f1, fm1)
    IN  RMul(Half, HornerGrad(x, a, b, c))

\* _vals[ix*_ny+iy] where nothing keeps the offset inside the array: a read
\* outside the Nx*Ny elements is undefined and yields the arbitrary value g
VU(t, ix, iy, g) ==
    LET k == ix * t.ny + iy
    IN  IF k >= 0 /\ k < t.nx * t.ny THEN R(At(t.vals, k)) ELSE g

\* T2DCubicConvolution::interp
convInterp(t, x, y, i, j, g) ==
    LET dxgrid == RSub(Arg(t.xargs, i), Arg(t.xargs, i - 1))
        dygrid == RSub(Arg(t.yargs, j), Arg(t.yargs, j - 1))
        dx == RDiv(RSub(x, Arg(t.xargs, i - 1)), dxgrid)
        dy == RDiv(RSub(y, Arg(t.yargs, j - 1)), dygrid)
        row(jj) == convOneDSpline(dx, VU(t, i - 2, jj, g), VU(t, i - 1, jj, g),
                                  VU(t, i, jj, g), VU(t, i + 1, jj, g))
    IN  convOneDSpline(dy, row(j - 2), row(j - 1), row(j), row(j + 1))

\* T2DCubicConvolution::grad
convGrad(t, x, y, i, j, g) ==
    LET dxgrid == RSub(Arg(t.xargs, i), Arg(t.xargs, i - 1))
        dygrid == RSub(Arg(t.yargs, j), Arg(t.yargs, j - 1))
        dx == RDiv(RSub(x, Arg(t.xargs, i - 1)), dxgrid)
        dy == RDiv(RSub(y, Arg(t.yargs, j - 1)), dygrid)
        rowG(jj) == convOneDGrad(dx, VU(t, i - 2, jj, g), VU(t, i - 1, jj, g),
                                 VU(t, i, jj, g), VU(t, i + 1, jj, g))
        colG(ii) == convOneDGrad(dy, VU(t, ii, j - 2, g), VU(t, ii, j - 1, g),
                                 VU(t, ii, j, g), VU(t, ii, j + 1, g))
    IN  [ dfdx |-> RDiv(convOneDSpline(dy, rowG(j - 2), rowG(j - 1), rowG(j), rowG(j + 1)),
                        dxgrid),
          dfdy |-> RDiv(convOneDSpline(dx, colG(i - 2), colG(i - 1), colG(i), colG(i + 1)),
                        dygrid) ]

\* the one-dimensional kernels a caller may wrap into the InterpolantXY it
\* hands to a Table2D: support radius, exact-at-nodes flag, pointwise value
Kernels ==
    { [name |-> "linear", xrange |-> One, exact |-> TRUE],
      [name |-> "tent2", xrange |-> R(2), exact |-> FALSE] }

\* Interpolant::xval(x) of the wrapped one-dimensional kernel
kernel1d(K, x) ==
    IF ~ RLt(RAbs(x), K.xrange) THEN Zero
    ELSE IF K.name = "linear" THEN RSub(One, RAbs(x))
    ELSE RDiv(RSub(R(2), RAbs(x)), R(4))

\* InterpolantXY::xval(x, y)
xval(K, x, y) ==
    RMul(kernel1d(K, x), kernel1d(K, y))

\* std::abs(d) < 10.*std::numeric_limits<double>::epsilon(): the offsets of
\* the model are multiples of 1/8 or coarser, so the test passes iff d = 0
NearZero(d) ==
    d = Zero

\* the inner loop of T2DInterpolant2D::interp: ix from ix0 to ixMax
RECURSIVE kernelRow(_, _, _, _, _, _, _)
kernelRow(t, fx, fy, ix, ixMax, iy, sum) ==
    IF ix > ixMax THEN sum
    ELSE kernelRow(t, fx, fy, ix + 1, ixMax, iy,
                   RAdd(sum, RMul(V(t, ix, iy),
                                  xval(t.interp2d, RSub(fx, R(ix)), RSub(fy, R(iy))))))

\* the outer loop of T2DInterpolant2D::interp: iy from iy0 to iyMax
RECURSIVE kernelSum(_, _, _, _, _, _, _, _)
kernelSum(t, fx, fy, ixMin, ixMax, iy, iyMax, sum) ==
    IF iy > iyMax THEN sum
    ELSE kernelSum(t, fx, fy, ixMin, ixMax, iy + 1, iyMax,
                   kernelRow(t, fx, fy, ixMin, ixMax, iy, sum))

\* the summation range T2DInterpolant2D::interp computes on one axis: d is the
\* offset inside bracket i and n the number of nodes on the axis
kernelRange(K, d, i, n) ==
    LET collapse == K.exact /\ NearZero(d)
        lo == IF collapse THEN i - 1 ELSE i - 1 + RCeil(RSub(d, K.xrange))
        hi == IF collapse THEN i - 1 ELSE i - 1 + RFloor(RAdd(d, K.xrange))
    IN  [min |-> IMax(lo, 0), max |-> IMin(hi, n - 1)]

\* the summation range of T2DInterpolant2D::interp on the axis av for the
\* query a in bracket i: d = (a - args[i-1]) / (args[i] - args[i-1])
kernelAxisRange(K, av, a, i) ==
    kernelRange(K, RDiv(RSub(a, Arg(av, i - 1)), RSub(Arg(av, i), Arg(av, i - 1))),
                i, av.n)

\* T2DInterpolant2D::interp
kernelInterp(t, x, y, i, j) ==
    LET dxgrid == RSub(Arg(t.xargs, i), Arg(t.xargs, i - 1))
        dygrid == RSub(Arg(t.yargs, j), Arg(t.yargs, j - 1))
        dx == RDiv(RSub(x, Arg(t.xargs, i - 1)), dxgrid)
        dy == RDiv(RSub(y, Arg(t.yargs, j - 1)), dygrid)
        rx == kernelAxisRange(t.interp2d, t.xargs, x, i)
        ry == kernelAxisRange(t.interp2d, t.yargs, y, j)
    IN  IF rx.min > rx.max THEN Zero
        ELSE IF ry.min > ry.max THEN Zero
        ELSE kernelSum(t, RAdd(R(i - 1), dx), RAdd(R(j - 1), dy),
                       rx.min, rx.max, ry.min, ry.max, Zero)

\* static_cast<const T*>(this)->interp(x, y, i, j)
interp(t, x, y, i, j, g) ==
    CASE t.mode = "floor" -> floorInterp(t, x, y, i, j)
      [] t.mode = "ceil" -> ceilInterp(t, x, y, i, j)
      [] t.mode = "nearest" -> nearestInterp(t, x, y, i, j)
      [] t.mode = "linear" -> linearInterp(t, x, y, i, j)
      [] t.mode = "cubic" -> cubicInterp(t, x, y, i, j)
      [] t.mode = "cubicConvolve" -> convInterp(t, x, y, i, j, g)
      [] t.mode = "interpolant2d" -> kernelInterp(t, x, y, i, j)

\* a stencil cut down to the nodes of the grid
convStencilGuarded(t, i, j) ==
    (IMax(i - 2, 0) .. IMin(i + 1, t.nx - 1)) \X (IMax(j - 2, 0) .. IMin(j + 1, t.ny - 1))

\* the nodes T2DCubicConvolution::interp and grad read: (i-2 .. i+1) by
\* (j-2 .. j+1), whatever the size of the grid
convStencil(t, i, j) ==
    ((i - 2) .. (i + 1)) \X ((j - 2) .. (j + 1))

\* the nodes (ix, iy) whose element ix*_ny+iy interp(x, y, i, j) reads
interpReads(t, x, y, i, j) ==
    CASE t.mode = "floor" ->
             {<<floorIndex(t.xargs, x, i) - 1, floorIndex(t.yargs, y, j) - 1>>}
      [] t.mode = "ceil" ->
             {<<ceilIndex(t.xargs, x, i), ceilIndex(t.yargs, y, j)>>}
      [] t.mode = "nearest" ->
             {<<nearestIndex(t.xargs, x, i), nearestIndex(t.yargs, y, j)>>}
      [] t.mode \in {"linear", "cubic"} -> ((i - 1) .. i) \X ((j - 1) .. j)
      [] t.mode = "cubicConvolve" -> convStencil(t, i, j)
      [] t.mode = "interpolant2d" ->
             LET rx == kernelAxisRange(t.interp2d, t.xargs, x, i)
                 ry == kernelAxisRange(t.interp2d, t.yargs, y, j)
             IN  IF rx.min > rx.max \/ ry.min > ry.max THEN {}
                 ELSE (rx.min .. rx.max) \X (ry.min .. ry.max)

\* the nodes grad(x, y, i, j, dfdx, dfdy) reads
gradReads(t, i, j) ==
    CASE t.mode \in {"floor", "ceil", "nearest", "interpolant2d"} -> {}
      [] t.mode \in {"linear", "cubic"} -> ((i - 1) .. i) \X ((j - 1) .. j)
      [] t.mode = "cubicConvolve" -> convStencil(t, i, j)

\* a set of throwing modes that also holds cubic convolution
gradThrowsConvolve(mode) ==
    mode \in {"floor", "ceil", "nearest", "interpolant2d", "cubicConvolve"}

\* the modes whose grad() throws std::runtime_error
gradThrows(mode) ==
    mode \in {"floor", "ceil", "nearest", "interpolant2d"}

\* the partials a grad() that returns has stored in dfdx and dfdy
Partials(d) ==
    [raised |-> FALSE, dfdx |-> d.dfdx, dfdy |-> d.dfdy]

\* static_cast<const T*>(this)->grad(x, y, i, j, dfdx, dfdy)
grad(t, x, y, i, j, g) ==
    CASE gradThrows(t.mode) -> [raised |-> TRUE]
      [] t.mode = "linear" -> Partials(linearGrad(t, x, y, i, j))
      [] t.mode = "cubic" -> Partials(cubicGrad(t, x, y, i, j))
      [] t.mode = "cubicConvolve" -> Partials(convGrad(t, x, y, i, j, g))

\* the table t with the hints of its two ArgVecs set
WithHints(t, lastx, lasty) ==
    [t EXCEPT !.xargs.lastIndex = lastx, !.yargs.lastIndex = lasty]

\* return static_cast<const T*>(this)->interp(x, y, i, j) for the brackets
\* u and v that upperIndex gave
lookup2DAt(t, x, y, g, u, v) ==
    [ i |-> u.i, j |-> v.i, val |-> interp(t, x, y, u.i, v.i, g),
      lastx |-> u.lastIndex, lasty |-> v.lastIndex ]

\* T2DCRTP::lookup(x, y)
lookup2D(t, x, y, g) ==
    lookup2DAt(t, x, y, g, upperIndex(t.xargs, x), upperIndex(t.yargs, y))

\* static_cast<const T*>(this)->grad(x, y, i, j, dfdx, dfdy) for the brackets
\* u and v that upperIndex gave
gradientAt(t, x, y, g, u, v) ==
    [ i |-> u.i, j |-> v.i, out |-> grad(t, x, y, u.i, v.i, g),
      lastx |-> u.lastIndex, lasty |-> v.lastIndex ]

\* T2DCRTP::gradient(x, y, dfdx, dfdy)
gradient(t, x, y, g) ==
    gradientAt(t, x, y, g, upperIndex(t.xargs, x), upperIndex(t.yargs, y))

\* T2DCRTP::interpMany: the loop from point k on
RECURSIVE interpMany2D(_, _, _, _, _), interpMany2DStore(_, _, _, _, _, _)
interpMany2D(t, pts, k, valvec, g) ==
    IF k >= Len(pts)
    THEN [valvec |-> valvec, lastx |-> t.xargs.lastIndex, lasty |-> t.yargs.lastIndex]
    ELSE interpMany2DStore(t, pts, k, valvec, g,
                           lookup2D(t, At(pts, k)[1], At(pts, k)[2], g))

\* valvec[k] = interp(xvec[k], yvec[k], i, j), r being what the lookup gave
interpMany2DStore(t, pts, k, valvec, g, r) ==
    interpMany2D(WithHints(t, r.lastx, r.lasty), pts, k + 1, Append(valvec, r.val), g)

\* T2DCRTP::gradientMany: the loop from point k on; the first grad() that
\* throws ends the loop, the hints already moved
RECURSIVE gradientMany(_, _, _, _, _), gradientManyStore(_, _, _, _, _, _)
gradientMany(t, pts, k, outs, g) ==
    IF k >= Len(pts)
    THEN [ raised |-> FALSE, outs |-> outs,
           lastx |-> t.xargs.lastIndex, lasty |-> t.yargs.lastIndex ]
    ELSE gradientManyStore(t, pts, k, outs, g,
                           gradient(t, At(pts, k)[1], At(pts, k)[2], g))

\* grad(xvec[k], yvec[k], i, j, dfdxvec[k], dfdyvec[k]), r being what it gave
gradientManyStore(t, pts, k, outs, g, r) ==
    IF r.out.raised
    THEN [raised |-> TRUE, outs |-> outs, lastx |-> r.lastx, lasty |-> r.lasty]
    ELSE gradientMany(WithHints(t, r.lastx, r.lasty), pts, k + 1,
                      Append(outs, <<r.out.dfdx, r.out.dfdy>>), g)

\* Table2D::makeImpl: the strategy object built, or the exception thrown
makeImpl(xargs, yargs, vals, in, dfdx, dfdy, d2fdxdy, interp2d) ==
    IF in \notin Modes2D THEN [raised |-> TRUE, obj |-> NoTable]
    ELSE [ raised |-> FALSE,
           obj |-> [ kind |-> "Table2D",
                     mode |-> in,
                     xargs |-> ArgVec(xargs, 0),
                     yargs |-> ArgVec(yargs, 0),
                     vals |-> vals,
                     nx |-> Len(xargs),
                     ny |-> Len(yargs),
                     dfdx |-> IF in = "cubic" THEN dfdx ELSE <<>>,
                     dfdy |-> IF in = "cubic" THEN dfdy ELSE <<>>,
                     d2fdxdy |-> IF in = "cubic" THEN d2fdxdy ELSE <<>>,
                     interp2d |-> IF in = "interpolant2d" THEN interp2d
                                  ELSE [name |-> "none"] ] ]

-----------------------------------------------------------------------------
(* Inputs.                                                                 *)

RECURSIVE SortSet(_)
SortSet(S) ==
    IF S = {} THEN <<>>
    ELSE LET m == CHOOSE x \in S : \A y \in S : x <= y
         IN  <<m>> \o SortSet(S \ {m})

\* grids that pass the 1% equal-spacing test without being equally spaced
NearlyEqualSpaced == {<<0, 100, 202>>, <<0, 102, 202>>}

\* strictly increasing argument arrays with 2..MaxN nodes
Grids ==
    {SortSet(S) : S \in {T \in SUBSET (0 .. MaxArg) :
                             Cardinality(T) >= 2 /\ Cardinality(T) <= MaxN}}
        \cup NearlyEqualSpaced

\* value arrays of length n
ValArrays(n) ==
    { [k \in 1 .. n |-> (k - 1) * (k - 1)],
      [k \in 1 .. n |-> (n - k) * (n - k) + 1],
      [k \in 1 .. n |-> IF k % 2 = 1 THEN 3 ELSE 7] }

\* spline tables are built on the small grids only: the spline of a grid with
\* spacing 100 does not fit the 32-bit integers of the exact arithmetic
SplineInRange(args, in) ==
    in = "spline" => args \notin NearlyEqualSpaced

\* the precisions of the arithmetic: none (no rounding) and Mantissa bits
Precisions == {0, Mantissa}

\* the members of S that are doubles of precision p
DoublesIn(p, S) ==
    {a \in S : Fl(p, a) = a}

\* every element of the integer array a is a double of precision p: the
\* caller's arrays hold doubles
AreDoubles(p, a) ==
    \A k \in 1 .. Len(a) : Fl(p, R(a[k])) = R(a[k])

\* query points for a grid: every node, the points half a unit beside each
\* node (in and out of the domain) and the midpoint of every bracket
Queries(vec) ==
    UNION {{R(vec[k]), RSub(R(vec[k]), Half), RAdd(R(vec[k]), Half)} : k \in 1 .. Len(vec)}
        \cup {RNorm(vec[k] + vec[k + 1], 2) : k \in 1 .. (Len(vec) - 1)}

\* the points batches are drawn from: the second node, the last node and a
\* point on either side of the domain
BatchQueries(vec) ==
    {R(vec[2]), back(vec), RSub(front(vec), Half), RAdd(back(vec), Half)}

\* the unit-spaced grid 0, 1, ..., n-1
UnitGrid(n) ==
    [k \in 1 .. n |-> k - 1]

\* the argument arrays of the two-dimensional tables: the smallest grid, an
\* equally spaced one with MaxN nodes and one that is not equally spaced
Grids2D ==
    {UnitGrid(2), UnitGrid(MaxN), <<0, 1, MaxArg>>}

\* the borrowed Nx x Ny grids: the values and, for the cubic mode, the three
\* derivative grids, all row-major (element (ix, iy) at ix*Ny+iy)
\* (the values are ix^2 + iy^3 at node (ix, iy))
DataGrids(nx, ny) ==
    { [ vals |-> [k \in 1 .. nx * ny |->
                    LET ix == (k - 1) \div ny
                        iy == (k - 1) % ny
                    IN  ix * ix + iy * iy * iy],
        dfdx |-> [k \in 1 .. nx * ny |-> k],
        dfdy |-> [k \in 1 .. nx * ny |-> 2 - k],
        d2fdxdy |-> [k \in 1 .. nx * ny |-> (k % 3) - 1] ] }

\* coefficients <<c0, cx, cy, cxy>> of the bilinear functions
\* c0 + cx*x + cy*y + cxy*x*y sampled into value grids
BilinearCoefficients ==
    {<<0, 1, 1, 0>>, <<1, 2, 0, 1>>}

\* the data a table of mode in is built on; a bilinear table is also built
\* on the value grids sampling the bilinear functions at the nodes
DataFor(in, xargs, yargs) ==
    DataGrids(Len(xargs), Len(yargs))
        \cup (IF in # "linear" THEN {}
              ELSE { [ vals |-> [k \in 1 .. Len(xargs) * Len(yargs) |->
                                   LET x == xargs[((k - 1) \div Len(yargs)) + 1]
                                       y == yargs[((k - 1) % Len(yargs)) + 1]
                                   IN  c[1] + c[2] * x + c[3] * y + c[4] * x * y],
                       dfdx |-> <<>>, dfdy |-> <<>>, d2fdxdy |-> <<>> ] :
                     c \in BilinearCoefficients })

\* what a read outside the value grid may yield
Garbage == {R(0), R(-3)}

\* the arbitrary values that can matter to a call on table t
GarbageFor(t) ==
    IF t.mode = "cubicConvolve" THEN Garbage ELSE {Zero}

\* the query points of table t; a kernel table is also queried far outside
\* the domain on one axis, where the kernel's support ends before the grid
QueryPoints(t) ==
    (Queries(t.xargs.vec) \X Queries(t.yargs.vec))
        \cup (IF t.mode = "interpolant2d"
              THEN { <<RSub(front(t.xargs.vec), R(3)), front(t.yargs.vec)>>,
                     <<back(t.xargs.vec), RAdd(back(t.yargs.vec), R(2 * MaxArg))>> }
              ELSE {})

\* the points two-dimensional batches are drawn from: one outside the domain,
\* an inner node and the last node
BatchPoints(t) ==
    { <<RSub(front(t.xargs.vec), Half), front(t.yargs.vec)>>,
      <<Arg(t.xargs, 1), Arg(t.yargs, 1)>>,
      <<back(t.xargs.vec), back(t.yargs.vec)>> }

-----------------------------------------------------------------------------
(* The operations.  The library is synchronous: the caller issues one call *)
(* and takes what it returns (res) before it issues the next.              *)

Idle == [op |-> "none"]

Init ==
    /\ tab = NoTable
    /\ res = Idle

\* a constructor has run: r.obj is the object it built (NoTable when it threw),
\* and the caller sees whether it threw
Constructed(op, in, n, tmv, r) ==
    /\ tab' = r.obj
    /\ res' = [op |-> op, raised |-> r.raised, in |-> in, n |-> n, useTMV |-> tmv]

\* Table::Table(args, vals, N, in): _pimpl.reset(new TableImpl(...)); when
\* the TableImpl constructor throws, no Table object comes to exist
NewTable ==
    /\ res = Idle
    /\ tab.kind = "none"
    /\ \E args \in Grids, in \in Modes1D \cup {"invalid"}, tmv \in BOOLEAN, libThrows \in BOOLEAN,
          p \in Precisions :
        \E vals \in ValArrays(Len(args)) :
            /\ SplineInRange(args, in)
            /\ AreDoubles(p, args) /\ AreDoubles(p, vals)
            /\ Constructed("Table", in, Len(args), tmv,
                           TableImpl(args, vals, in, tmv, libThrows, p))

\* what a one-dimensional lookup handed back: the query, the bracket resolved
\* (0: none), the value, and the hint before and after the call
Returned(op, a, hint, r) ==
    [ op |-> op, a |-> a, i |-> r.i, val |-> r.val,
      hint |-> hint, last |-> r.lastIndex ]

\* Table::lookup(a)
Lookup ==
    /\ res = Idle
    /\ tab.kind = "Table"
    /\ \E a \in DoublesIn(tab.args.prec, Queries(tab.args.vec)) :
           /\ res' = Returned("lookup", a, tab.args.lastIndex, implLookup(tab, a))
           /\ tab' = WithHint(tab, res'.last)

\* Table::operator()(a)
Call ==
    /\ res = Idle
    /\ tab.kind = "Table"
    /\ \E a \in DoublesIn(tab.args.prec, Queries(tab.args.vec)) :
           /\ res' = Returned("call", a, tab.args.lastIndex, tableCall(tab, a))
           /\ tab' = WithHint(tab, res'.last)

ReturnedMany(argvec, hint, r) ==
    [ op |-> "interpMany", argvec |-> argvec, is |-> r.is, valvec |-> r.valvec,
      hint |-> hint, last |-> r.lastIndex ]

\* Table::interpMany(argvec, valvec, N)
InterpMany ==
    /\ res = Idle
    /\ tab.kind = "Table"
    /\ \E N \in 0 .. MaxBatch :
        \E argvec \in [1 .. N -> DoublesIn(tab.args.prec, BatchQueries(tab.args.vec))] :
           /\ res' = ReturnedMany(argvec, tab.args.lastIndex,
                                  interpMany(tab, argvec, 0, <<>>, <<>>))
           /\ tab' = WithHint(tab, res'.last)

\* Table2D::Table2D(xargs, yargs, vals, Nx, Ny, in, dfdx, dfdy, d2fdxdy, interp2d)
NewTable2D ==
    /\ res = Idle
    /\ tab.kind = "none"
    /\ \E xargs \in Grids2D, yargs \in Grids2D, in \in Modes2D \cup {"invalid"} :
        \E d \in DataFor(in, xargs, yargs),
           K \in IF in = "interpolant2d" THEN Kernels ELSE {[name |-> "none"]} :
            Constructed("Table2D", in, Len(xargs) * Len(yargs), FALSE,
                        makeImpl(xargs, yargs, d.vals, in, d.dfdx, d.dfdy, d.d2fdxdy, K))

Returned2D(q, t, r) ==
    [ op |-> "lookup2D", x |-> q[1], y |-> q[2], i |-> r.i, j |-> r.j, val |-> r.val,
      hintx |-> t.xargs.lastIndex, hinty |-> t.yargs.lastIndex,
      lastx |-> r.lastx, lasty |-> r.lasty ]

\* Table2D::lookup(x, y)
Lookup2D ==
    /\ res = Idle
    /\ tab.kind = "Table2D"
    /\ \E q \in QueryPoints(tab), g \in GarbageFor(tab) :
           /\ res' = Returned2D(q, tab, lookup2D(tab, q[1], q[2], g))
           /\ tab' = WithHints(tab, res'.lastx, res'.lasty)

ReturnedMany2D(pts, t, r) ==
    [ op |-> "interpMany2D", pts |-> pts, valvec |-> r.valvec,
      hintx |-> t.xargs.lastIndex, hinty |-> t.yargs.lastIndex,
      lastx |-> r.lastx, lasty |-> r.lasty ]

\* Table2D::interpMany(xvec, yvec, valvec, N)
InterpMany2D ==
    /\ res = Idle
    /\ tab.kind = "Table2D"
    /\ \E N \in 0 .. MaxBatch, g \in GarbageFor(tab) :
        \E pts \in [1 .. N -> BatchPoints(tab)] :
           /\ res' = ReturnedMany2D(pts, tab, interpMany2D(tab, pts, 0, <<>>, g))
           /\ tab' = WithHints(tab, res'.lastx, res'.lasty)

ReturnedGradient(q, t, r) ==
    [ op |-> "gradient", x |-> q[1], y |-> q[2], i |-> r.i, j |-> r.j, out |-> r.out,
      hintx |-> t.xargs.lastIndex, hinty |-> t.yargs.lastIndex,
      lastx |-> r.lastx, lasty |-> r.lasty ]

\* Table2D::gradient(x, y, dfdx, dfdy)
Gradient ==
    /\ res = Idle
    /\ tab.kind = "Table2D"
    /\ \E q \in QueryPoints(tab), g \in GarbageFor(tab) :
           /\ res' = ReturnedGradient(q, tab, gradient(tab, q[1], q[2], g))
           /\ tab' = WithHints(tab, res'.lastx, res'.lasty)

ReturnedGradientMany(pts, t, r) ==
    [ op |-> "gradientMany", pts |-> pts, raised |-> r.raised, outs |-> r.outs,
      hintx |-> t.xargs.lastIndex, hinty |-> t.yargs.lastIndex,
      lastx |-> r.lastx, lasty |-> r.lasty ]

\* Table2D::gradientMany(xvec, yvec, dfdxvec, dfdyvec, N)
GradientMany ==
    /\ res = Idle
    /\ tab.kind = "Table2D"
    /\ \E N \in 0 .. MaxBatch, g \in GarbageFor(tab) :
        \E pts \in [1 .. N -> BatchPoints(tab)] :
           /\ res' = ReturnedGradientMany(pts, tab, gradientMany(tab, pts, 0, <<>>, g))
           /\ tab' = WithHints(tab, res'.lastx, res'.lasty)

\* the caller takes the result of the call it made
Return ==
    /\ res # Idle
    /\ res' = Idle
    /\ UNCHANGED tab

Next ==
    \/ NewTable
    \/ Lookup
    \/ Call
    \/ InterpMany
    \/ NewTable2D
    \/ Lookup2D
    \/ InterpMany2D
    \/ Gradient
    \/ GradientMany
    \/ Return

Spec ==
    Init /\ [][Next]_vars

-----------------------------------------------------------------------------
(* Two threads calling ArgVec::upperIndex on one table whose grid is not   *)
(* equally spaced.  _lastIndex is a plain mutable int: every read and      *)
(* every write of it is a step of its own, and the steps of the two        *)
(* threads interleave unless the caller serializes the calls.  pc names    *)
(* the statement a thread executes next; reg is the thread's register.     *)

\* the number of calls the two threads make between them
MaxCalls == 3

Threads == {1, 2}

\* what an element fetch can yield: the element, or any double (one below
\* and one above every query) when the offset k lies outside the array
VecReads(av, k) ==
    IF k \in 0 .. (av.n - 1) THEN {Arg(av, k)} ELSE {R(0 - 1), R(MaxArg + 1)}

\* the offsets a std:: binary search over [begin()+lo, begin()+hi) can
\* return: its result for a valid range, anything for an invalid one
SearchResults(av, lo, hi, found) ==
    IF 0 <= lo /\ lo <= hi /\ hi <= av.n THEN {found} ELSE 0 .. av.n

ThreadIdle == [pc |-> "idle", a |-> Zero, reg |-> 0, ret |-> 0]

InitThreads ==
    /\ \E args \in {g \in Grids : ~ ArgVec(g, 0).equalSpaced} :
           tab = TableImpl(args, [k \in 1 .. Len(args) |-> k - 1], "linear",
                           FALSE, FALSE, 0).obj
    /\ \E serialized \in BOOLEAN :
           res = [op |-> "threads", serialized |-> serialized, calls |-> 0,
                  thr |-> [t \in Threads |-> ThreadIdle]]

\* with per-table serialization a call starts only when no other is running
MayEnter(t) ==
    res.serialized => \A u \in Threads \ {t} : res.thr[u].pc \in {"idle", "done"}

\* upperIndex(a) is entered: if (a < front()) return 1;
\* if (a > back()) return _n-1; else on to the hinted branch
Enter ==
    \E t \in Threads :
        /\ res.thr[t].pc = "idle"
        /\ res.calls < MaxCalls
        /\ MayEnter(t)
        /\ \E a \in Queries(tab.args.vec) :
               /\ res' = [res EXCEPT !.calls = @ + 1, !.thr[t] =
                            [@ EXCEPT !.a = a,
                                      !.ret = IF RLt(a, front(tab.args.vec)) THEN 1
                                              ELSE IF RLt(back(tab.args.vec), a)
                                                   THEN tab.args.n - 1 ELSE 0,
                                      !.pc = IF RLt(a, front(tab.args.vec))
                                                \/ RLt(back(tab.args.vec), a)
                                             THEN "done" ELSE "cmpLower"]]
               /\ UNCHANGED tab

\* a test that also goes lower when a equals the element fetched
GoLowerOrEqual(a, v) ==
    RLe(a, v)

\* a < _vec[_lastIndex-1], v being the element fetched
GoLower(a, v) ==
    RLt(a, v)

\* if ( a < _vec[_lastIndex-1] )
CmpLower ==
    \E t \in Threads :
        /\ res.thr[t].pc = "cmpLower"
        /\ \E v \in VecReads(tab.args, tab.args.lastIndex - 1) :
               res' = [res EXCEPT !.thr[t].pc =
                           IF GoLower(res.thr[t].a, v) THEN "cmpPrev" ELSE "cmpHigher"]
        /\ UNCHANGED tab

\* if (a >= _vec[_lastIndex-2])
CmpPrev ==
    \E t \in Threads :
        /\ res.thr[t].pc = "cmpPrev"
        /\ \E v \in VecReads(tab.args, tab.args.lastIndex - 2) :
               res' = [res EXCEPT !.thr[t].pc =
                           IF RLe(v, res.thr[t].a) THEN "decLoad" ELSE "searchLower"]
        /\ UNCHANGED tab

\* return --_lastIndex; the load
DecLoad ==
    \E t \in Threads :
        /\ res.thr[t].pc = "decLoad"
        /\ res' = [res EXCEPT !.thr[t].reg = tab.args.lastIndex,
                              !.thr[t].pc = "decStore"]
        /\ UNCHANGED tab

\* return --_lastIndex; the store and the return
DecStore ==
    \E t \in Threads :
        /\ res.thr[t].pc = "decStore"
        /\ tab' = WithHint(tab, res.thr[t].reg - 1)
        /\ res' = [res EXCEPT !.thr[t].ret = res.thr[t].reg - 1,
                              !.thr[t].reg = 0, !.thr[t].pc = "done"]

\* p = std::upper_bound(begin(), begin()+_lastIndex-1, a);
SearchLower ==
    \E t \in Threads :
        /\ res.thr[t].pc = "searchLower"
        /\ \E p \in SearchResults(tab.args, 0, tab.args.lastIndex - 1,
                                  UpperBound(tab.args, 0, tab.args.lastIndex - 1,
                                             res.thr[t].a)) :
               res' = [res EXCEPT !.thr[t].reg = p, !.thr[t].pc = "storeLower"]
        /\ UNCHANGED tab

\* _lastIndex = p-begin(); in the go-lower branch
StoreLower ==
    \E t \in Threads :
        /\ res.thr[t].pc = "storeLower"
        /\ tab' = WithHint(tab, res.thr[t].reg)
        /\ res' = [res EXCEPT !.thr[t].reg = 0, !.thr[t].pc = "retLower"]

\* return _lastIndex; in the go-lower branch
RetLower ==
    \E t \in Threads :
        /\ res.thr[t].pc = "retLower"
        /\ res' = [res EXCEPT !.thr[t].ret = tab.args.lastIndex, !.thr[t].pc = "done"]
        /\ UNCHANGED tab

\* else if (a > _vec[_lastIndex])
CmpHigher ==
    \E t \in Threads :
        /\ res.thr[t].pc = "cmpHigher"
        /\ \E v \in VecReads(tab.args, tab.args.lastIndex) :
               res' = [res EXCEPT !.thr[t].pc =
                           IF RLt(v, res.thr[t].a) THEN "cmpNext" ELSE "retSame"]
        /\ UNCHANGED tab

\* if (a <= _vec[_lastIndex+1])
CmpNext ==
    \E t \in Threads :
        /\ res.thr[t].pc = "cmpNext"
        /\ \E v \in VecReads(tab.args, tab.args.lastIndex + 1) :
               res' = [res EXCEPT !.thr[t].pc =
                           IF RLe(res.thr[t].a, v) THEN "incLoad" ELSE "searchHigher"]
        /\ UNCHANGED tab

\* return ++_lastIndex; the load
IncLoad ==
    \E t \in Threads :
        /\ res.thr[t].pc = "incLoad"
        /\ res' = [res EXCEPT !.thr[t].reg = tab.args.lastIndex,
                              !.thr[t].pc = "incStore"]
        /\ UNCHANGED tab

\* return ++_lastIndex; the store and the return
IncStore ==
    \E t \in Threads :
        /\ res.thr[t].pc = "incStore"
        /\ tab' = WithHint(tab, res.thr[t].reg + 1)
        /\ res' = [res EXCEPT !.thr[t].ret = res.thr[t].reg + 1,
                              !.thr[t].reg = 0, !.thr[t].pc = "done"]

\* p = std::lower_bound(begin()+_lastIndex+1, end(), a);
SearchHigher ==
    \E t \in Threads :
        /\ res.thr[t].pc = "searchHigher"
        /\ \E p \in SearchResults(tab.args, tab.args.lastIndex + 1, tab.args.n,
                                  LowerBound(tab.args, tab.args.lastIndex + 1,
                                             tab.args.n, res.thr[t].a)) :
               res' = [res EXCEPT !.thr[t].reg = p, !.thr[t].pc = "storeHigher"]
        /\ UNCHANGED tab

\* _lastIndex = p-begin(); in the go-higher branch
StoreHigher ==
    \E t \in Threads :
        /\ res.thr[t].pc = "storeHigher"
        /\ tab' = WithHint(tab, res.thr[t].reg)
        /\ res' = [res EXCEPT !.thr[t].reg = 0, !.thr[t].pc = "retHigher"]

\* return _lastIndex; in the go-higher branch
RetHigher ==
    \E t \in Threads :
        /\ res.thr[t].pc = "retHigher"
        /\ res' = [res EXCEPT !.thr[t].ret = tab.args.lastIndex, !.thr[t].pc = "done"]
        /\ UNCHANGED tab

\* return _lastIndex; the hint's bracket is still good
RetSame ==
    \E t \in Threads :
        /\ res.thr[t].pc = "retSame"
        /\ res' = [res EXCEPT !.thr[t].ret = tab.args.lastIndex, !.thr[t].pc = "done"]
        /\ UNCHANGED tab

\* the caller of thread t takes the index returned
Leave ==
    \E t \in Threads :
        /\ res.thr[t].pc = "done"
        /\ res' = [res EXCEPT !.thr[t] = ThreadIdle]
        /\ UNCHANGED tab

NextThreads ==
    \/ Enter
    \/ CmpLower
    \/ CmpPrev
    \/ DecLoad
    \/ DecStore
    \/ SearchLower
    \/ StoreLower
    \/ RetLower
    \/ CmpHigher
    \/ CmpNext
    \/ IncLoad
    \/ IncStore
    \/ SearchHigher
    \/ StoreHigher
    \/ RetHigher
    \/ RetSame
    \/ Leave

SpecThreads ==
    InitThreads /\ [][NextThreads]_vars

-----------------------------------------------------------------------------
(* Properties.  Node(vec, k) is the grid element x[k], counted from 0 as   *)
(* the source does.                                                        *)

Node(vec, k) ==
    R(vec[k + 1])

InDomain(vec, a) ==
    RLe(Node(vec, 0), a) /\ RLe(a, Node(vec, Len(vec) - 1))

Below(vec, a) ==
    RLt(a, Node(vec, 0))

Above(vec, a) ==
    RLt(Node(vec, Len(vec) - 1), a)

\* i is a bracket of the grid and a lies in it
IsBracket(vec, a, i) ==
    /\ i \in 1 .. (Len(vec) - 1)
    /\ RLe(Node(vec, i - 1), a)
    /\ RLe(a, Node(vec, i))

\* the bracket an out-of-range query is clamped to
IsClamped(vec, a, i) ==
    /\ Below(vec, a) => i = 1
    /\ Above(vec, a) => i = Len(vec) - 1

Is1DLookup ==
    res.op \in {"lookup", "call"}

Is2DLookup ==
    res.op \in {"lookup2D", "gradient"}

\* C1: whatever the grid (uniform or not) and whatever calls came before,
\* upperIndex resolves a query a with args[0] <= a <= args[n-1] to an index
\* i with 1 <= i <= n-1 and args[i-1] <= a <= args[i].  Checked on every
\* index the one- and two-dimensional operations obtained from upperIndex.
C1_BracketHoldsQuery ==
    /\ Is1DLookup /\ InDomain(tab.args.vec, res.a)
           => IsBracket(tab.args.vec, res.a, res.i)
    /\ res.op = "interpMany"
           => \A k \in 1 .. Len(res.argvec) :
                  InDomain(tab.args.vec, res.argvec[k])
                      => IsBracket(tab.args.vec, res.argvec[k], res.is[k])
    /\ Is2DLookup /\ InDomain(tab.xargs.vec, res.x)
           => IsBracket(tab.xargs.vec, res.x, res.i)
    /\ Is2DLookup /\ InDomain(tab.yargs.vec, res.y)
           => IsBracket(tab.yargs.vec, res.y, res.j)

\* a non-uniform grid whose hint stood at the last bracket, and a query in
\* the first bracket: the binary search ran and found bracket 1
C1_Witness ==
    /\ res.op = "lookup"
    /\ ~ tab.args.equalSpaced
    /\ res.hint = 3
    /\ res.i = 1
    /\ InDomain(tab.args.vec, res.a)
    /\ res.a # Node(tab.args.vec, 0)

\* C2: a query below the first grid element resolves to index 1 and a query
\* above the last one to index n-1; the call returns an index (it raises
\* nothing), on uniform and non-uniform grids, after any calls before.
C2_OutOfRangeClamps ==
    /\ res.op = "lookup" => IsClamped(tab.args.vec, res.a, res.i)
    /\ res.op = "interpMany"
           => \A k \in 1 .. Len(res.argvec) :
                  IsClamped(tab.args.vec, res.argvec[k], res.is[k])
    /\ Is2DLookup => /\ IsClamped(tab.xargs.vec, res.x, res.i)
                     /\ IsClamped(tab.yargs.vec, res.y, res.j)

\* a query above the last element of a four-node non-uniform grid whose hint
\* stood at bracket 1: index 3 came back
C2_Witness ==
    /\ res.op = "lookup"
    /\ ~ tab.args.equalSpaced
    /\ tab.n = 4
    /\ res.hint = 1
    /\ Above(tab.args.vec, res.a)
    /\ res.i = 3

\* C3: Table::operator()(a) returns 0 when a < argMin() or a > argMax() and
\* exactly what lookup(a) returns otherwise, the two endpoints included;
\* Table::lookup(a) itself never substitutes zero for an out-of-domain query:
\* it evaluates the mode's formula on the boundary bracket.
C3_CallZeroOutsideLookupInside ==
    /\ res.op = "call" /\ ~ InDomain(tab.args.vec, res.a) => res.val = Zero
    /\ res.op = "call" /\ InDomain(tab.args.vec, res.a)
           => res.val = implLookup(WithHint(tab, res.hint), res.a).val
    /\ res.op = "lookup" /\ Below(tab.args.vec, res.a)
           => res.val = interpolate(tab, res.a, 1)
    /\ res.op = "lookup" /\ Above(tab.args.vec, res.a)
           => res.val = interpolate(tab, res.a, tab.n - 1)

\* operator() at a == argMax() handed back the non-zero value of the last node
C3_Witness ==
    /\ res.op = "call"
    /\ res.a = argMax(tab)
    /\ res.val = Val(tab, tab.n - 1)
    /\ res.val # Zero

\* C4: in each of the five one-dimensional modes, for every node k in
\* 0..n-1 and after any calls before, a lookup at x[k] returns vals[k],
\* whichever of the two brackets next to x[k] upperIndex resolved.
C4_NodeValueExact ==
    /\ Is1DLookup
           => \A k \in 0 .. (tab.n - 1) :
                  res.a = Node(tab.args.vec, k) => res.val = Val(tab, k)
    /\ res.op = "interpMany"
           => \A m \in 1 .. Len(res.argvec) : \A k \in 0 .. (tab.n - 1) :
                  res.argvec[m] = Node(tab.args.vec, k)
                      => res.valvec[m] = Val(tab, k)

\* a is as far from node i-1 as from node i
Equidistant(vec, a, i) ==
    RSub(a, Node(vec, i - 1)) = RSub(Node(vec, i), a)

\* the node of bracket i closer to a, and the node tie when neither is
ClosestNode(vec, a, i, tie) ==
    IF RLt(RSub(a, Node(vec, i - 1)), RSub(Node(vec, i), a)) THEN i - 1
    ELSE IF RLt(RSub(Node(vec, i), a), RSub(a, Node(vec, i - 1))) THEN i
    ELSE tie

Is1DTie ==
    /\ Is1DLookup
    /\ tab.iType = "nearest"
    /\ res.i >= 1
    /\ Equidistant(tab.args.vec, res.a, res.i)

Is2DTie ==
    /\ res.op = "lookup2D"
    /\ tab.mode = "nearest"
    /\ \/ Equidistant(tab.xargs.vec, res.x, res.i)
       \/ Equidistant(tab.yargs.vec, res.y, res.j)

\* C5 as the specification states it: in nearest mode (1D, and per axis in
\* 2D) a query equidistant from the nodes i-1 and i of its bracket gets the
\* value at node i-1.
C5_TieTowardLowerNode ==
    /\ Is1DTie => res.val = Val(tab, res.i - 1)
    /\ Is2DTie => res.val = V(tab, ClosestNode(tab.xargs.vec, res.x, res.i, res.i - 1),
                                   ClosestNode(tab.yargs.vec, res.y, res.j, res.j - 1))

\* C5 as the code has it: in nearest mode (1D, and per axis in 2D) a query
\* equidistant from the nodes i-1 and i of its bracket gets the value at
\* node i, the upper node.
C5_TieTowardUpperNode ==
    /\ Is1DTie => res.val = Val(tab, res.i)
    /\ Is2DTie => res.val = V(tab, ClosestNode(tab.xargs.vec, res.x, res.i, res.i),
                                   ClosestNode(tab.yargs.vec, res.y, res.j, res.j))

\* a one-dimensional nearest lookup at the midpoint of a bracket whose two
\* node values differ
C5_Witness ==
    /\ Is1DTie
    /\ Val(tab, res.i - 1) # Val(tab, res.i)

\* C6: for an in-domain query a, after any calls before, floor mode returns
\* vals[k] for the greatest k with x[k] <= a and ceil mode returns vals[k]
\* for the least k with x[k] >= a; k lies in 0..n-1, also at a == x[0] and
\* a == x[n-1].
C6_FloorAndCeilNodes ==
    Is1DLookup /\ InDomain(tab.args.vec, res.a) =>
        /\ tab.iType = "floor"
               => \E k \in 0 .. (tab.n - 1) :
                      /\ RLe(Node(tab.args.vec, k), res.a)
                      /\ \A m \in 0 .. (tab.n - 1) :
                             RLe(Node(tab.args.vec, m), res.a) => m <= k
                      /\ res.val = Val(tab, k)
        /\ tab.iType = "ceil"
               => \E k \in 0 .. (tab.n - 1) :
                      /\ RLe(res.a, Node(tab.args.vec, k))
                      /\ \A m \in 0 .. (tab.n - 1) :
                             RLe(res.a, Node(tab.args.vec, m)) => k <= m
                      /\ res.val = Val(tab, k)

\* a ceil lookup at a == x[0], resolved to bracket 1, returned vals[0], which
\* differs from vals[1]
C6_Witness ==
    /\ res.op = "lookup"
    /\ tab.iType = "ceil"
    /\ res.a = Node(tab.args.vec, 0)
    /\ res.i = 1
    /\ res.val = Val(tab, 0)
    /\ Val(tab, 0) # Val(tab, 1)

\* the table of the worked example: args [0,1,2,3], vals [0,1,4,9], linear
IsExampleTable ==
    /\ tab.kind = "Table"
    /\ tab.iType = "linear"
    /\ tab.args.vec = <<0, 1, 2, 3>>
    /\ tab.vals = <<0, 1, 4, 9>>

\* vals[i]*bx + vals[i-1]*ax with ax = (x[i]-a)/(x[i]-x[i-1]) and bx = 1-ax,
\* in arithmetic of precision p
LinearFormula(p, xlo, xhi, vlo, vhi, a) ==
    LET ax == FDiv(p, FSub(p, xhi, a), FSub(p, xhi, xlo))
        bx == FSub(p, One, ax)
    IN  FAdd(p, FMul(p, vhi, bx), FMul(p, vlo, ax))

\* C7: in linear mode an in-domain query a with bracket i gets
\* vals[i]*bx + vals[i-1]*ax with ax = (x[i]-a)/(x[i]-x[i-1]) and bx = 1-ax,
\* evaluated in the table's arithmetic; and on args [0,1,2,3],
\* vals [0,1,4,9] the lookup at 1.5 gives 2.5.
C7_LinearFormula ==
    /\ Is1DLookup /\ tab.iType = "linear" /\ InDomain(tab.args.vec, res.a)
           => res.val = LinearFormula(tab.args.prec,
                                      Node(tab.args.vec, res.i - 1),
                                      Node(tab.args.vec, res.i),
                                      Val(tab, res.i - 1), Val(tab, res.i), res.a)
    /\ Is1DLookup /\ IsExampleTable /\ res.a = <<3, 2>> => res.val = <<5, 2>>

\* the lookup at 1.5 on the example table has returned
C7_Witness ==
    /\ res.op = "lookup"
    /\ IsExampleTable
    /\ res.a = <<3, 2>>
    /\ res.i = 2

NoGradientModes ==
    {"floor", "ceil", "nearest", "interpolant2d"}

\* C8: a Table2D gradient request (gradient, or gradientMany over at least
\* one point) raises exactly when the table's mode is floor, ceil, nearest
\* or interpolant2d, at every query point in or out of the domain; a
\* bilinear, bicubic or cubic-convolution table hands back the two partials.
C8_GradientRaisesIffNoDerivative ==
    /\ res.op = "gradient"
           => /\ res.out.raised <=> tab.mode \in NoGradientModes
              /\ ~ res.out.raised => DOMAIN res.out = {"raised", "dfdx", "dfdy"}
    /\ res.op = "gradientMany" /\ Len(res.pts) >= 1
           => /\ res.raised <=> tab.mode \in NoGradientModes
              /\ ~ res.raised => Len(res.outs) = Len(res.pts)

\* a gradient asked of a kernel-mode table at a point left of the grid raised
C8_Witness ==
    /\ res.op = "gradient"
    /\ tab.mode = "interpolant2d"
    /\ Below(tab.xargs.vec, res.x)
    /\ res.out.raised

\* C9: constructing a Table or a Table2D with a mode tag outside the
\* recognised set raises during construction and leaves no table object;
\* no table ever carries a tag outside the set.
C9_UnknownTagRaises ==
    /\ res.op = "Table" /\ res.in \notin Modes1D => res.raised /\ tab = NoTable
    /\ res.op = "Table2D" /\ res.in \notin Modes2D => res.raised /\ tab = NoTable
    /\ tab.kind = "Table" => tab.iType \in Modes1D
    /\ tab.kind = "Table2D" => tab.mode \in Modes2D

\* a Table2D construction with an unknown tag raised
C9_Witness ==
    /\ res.op = "Table2D"
    /\ res.in \notin Modes2D
    /\ res.raised
    /\ tab = NoTable

\* C10: constructing a one-dimensional table in spline mode with fewer than
\* 3 nodes raises, and no table with spline mode and fewer than 3 nodes ever
\* exists.
C10_SplineNeedsThreeNodes ==
    /\ res.op = "Table" /\ res.in = "spline" /\ res.n < 3 => res.raised
    /\ ~ (tab.kind = "Table" /\ tab.iType = "spline" /\ tab.n < 3)

\* the second derivatives are as the natural spline has them: none unless
\* the mode is spline, else n of them, the first and the last zero
Y2WellFormed ==
    tab.kind = "Table" =>
        IF tab.iType = "spline"
        THEN /\ Len(tab.y2) = tab.n
             /\ At(tab.y2, 0) = Zero
             /\ At(tab.y2, tab.n - 1) = Zero
        ELSE tab.y2 = <<>>

\* no step taken on an existing table changes its second derivatives
Y2Kept ==
    tab.kind = "Table" => tab'.kind = "Table" /\ tab'.y2 = tab.y2

\* C11: y2 is non-empty only for a spline-mode table; when present it has
\* length n with y2[0] = 0 and y2[n-1] = 0; the constructor computes it, and
\* no lookup or batch operation afterwards changes it.
C11_Y2SetOnceAtConstruction ==
    [] Y2WellFormed /\ [][Y2Kept]_vars

\* a batch has run on a four-node spline table whose inner second
\* derivatives are not zero, and moved the hint
C11_Witness ==
    /\ res.op = "interpMany"
    /\ Len(res.argvec) >= 1
    /\ res.last # res.hint
    /\ tab.iType = "spline"
    /\ tab.n = 4
    /\ At(tab.y2, 1) # Zero
    /\ At(tab.y2, 2) # Zero

\* the linear weight of node k of bracket i for the query a: ax for the
\* lower node i-1, bx = 1 - ax for the upper node i
AxisWeight(vec, a, i, k) ==
    LET ax == RDiv(RSub(Node(vec, i), a), RSub(Node(vec, i), Node(vec, i - 1)))
    IN  IF k = i - 1 THEN ax ELSE RSub(One, ax)

\* the four corner values of bracket (i, j), each weighted by the product of
\* its two axis weights
CornerSum(t, x, y, i, j) ==
    LET term(kx, ky) == RMul(V(t, kx, ky),
                             RMul(AxisWeight(t.xargs.vec, x, i, kx),
                                  AxisWeight(t.yargs.vec, y, j, ky)))
    IN  RAdd(RAdd(term(i - 1, j - 1), term(i - 1, j)),
             RAdd(term(i, j - 1), term(i, j)))

\* c0 + cx*x + cy*y + cxy*x*y
BilinearAt(c, x, y) ==
    RAdd(RAdd(R(c[1]), RMul(R(c[2]), x)),
         RAdd(RMul(R(c[3]), y), RMul(R(c[4]), RMul(x, y))))

\* the table's values sample the bilinear function c at every node
IsBilinear(t, c) ==
    \A ix \in 0 .. (t.nx - 1), iy \in 0 .. (t.ny - 1) :
        V(t, ix, iy) = BilinearAt(c, Node(t.xargs.vec, ix), Node(t.yargs.vec, iy))

\* the 2 x 2 table of the worked example: corners 0, 1, 1, 2, bilinear mode
IsExampleTable2D ==
    /\ tab.kind = "Table2D"
    /\ tab.mode = "linear"
    /\ tab.xargs.vec = <<0, 1>>
    /\ tab.yargs.vec = <<0, 1>>
    /\ tab.vals = <<0, 1, 1, 2>>

HasReturned(t) ==
    res.op = "threads" /\ res.thr[t].pc = "done"

\* the index thread t got is a bracket holding the thread's own query
GoodIndex(t) ==
    IF InDomain(tab.args.vec, res.thr[t].a)
    THEN IsBracket(tab.args.vec, res.thr[t].a, res.thr[t].ret)
    ELSE /\ res.thr[t].ret \in 1 .. (tab.n - 1)
         /\ IsClamped(tab.args.vec, res.thr[t].a, res.thr[t].ret)

\* C13: when the lookups of two threads on one non-uniform table are
\* serialized, every index returned i satisfies 1 <= i <= n-1 and
\* args[i-1] <= a <= args[i] for the caller's own query a, and the hint
\* stays a bracket index; without serialization (each read and write of the
\* hint a separate step) a state is reachable in which a lookup has returned
\* an index that violates this (C13_Witness).
C13_SerializedLookupsBracket ==
    res.op = "threads" /\ res.serialized =>
        /\ tab.args.lastIndex \in 1 .. (tab.n - 1)
        /\ \A t \in Threads : HasReturned(t) => GoodIndex(t)

\* without serialization a lookup of an in-domain query has returned an index
\* that is no bracket of its query
C13_Witness ==
    /\ res.op = "threads"
    /\ ~ res.serialized
    /\ \E t \in Threads :
           /\ HasReturned(t)
           /\ InDomain(tab.args.vec, res.thr[t].a)
           /\ ~ IsBracket(tab.args.vec, res.thr[t].a, res.thr[t].ret)

\* the one-dimensional table of the given mode over the grid vec whose value
\* at node k is k, with its hint at h
AxisTable(vec, mode, h) ==
    WithHint(TableImpl(vec, [k \in 1 .. Len(vec) |-> k - 1], mode, FALSE, FALSE, 0).obj, h)

\* the nodes the one-dimensional mode can select for the query a on the grid
\* vec, over every position of the hint
NodesSelected(vec, mode, a) ==
    {implLookup(AxisTable(vec, mode, h), a).val[1] : h \in 1 .. (Len(vec) - 1)}

\* C14: a 2D floor, ceil or nearest lookup returns vals[kx*Ny+ky], kx and ky
\* being the nodes the 1D mode of the same name selects for x on the x grid
\* and for y on the y grid, for every query and every call history (the 1D
\* selection itself does not depend on the hint); at a node (x[i], y[j]) it
\* returns vals[i*Ny+j].
C14_NodeModesPerAxis ==
    res.op = "lookup2D" /\ tab.mode \in {"floor", "ceil", "nearest"} =>
        /\ \E kx \in 0 .. (tab.nx - 1), ky \in 0 .. (tab.ny - 1) :
               /\ NodesSelected(tab.xargs.vec, tab.mode, res.x) = {kx}
               /\ NodesSelected(tab.yargs.vec, tab.mode, res.y) = {ky}
               /\ res.val = R(At(tab.vals, kx * tab.ny + ky))
        /\ \A i \in 0 .. (tab.nx - 1), j \in 0 .. (tab.ny - 1) :
               res.x = Node(tab.xargs.vec, i) /\ res.y = Node(tab.yargs.vec, j)
                   => res.val = R(At(tab.vals, i * tab.ny + j))

\* a nearest lookup on a non-uniform x grid, entered with a moved hint, at an
\* inner x node and the last y node, has returned that node's value
C14_Witness ==
    /\ res.op = "lookup2D"
    /\ tab.mode = "nearest"
    /\ ~ tab.xargs.equalSpaced
    /\ res.hintx = 2
    /\ res.x = Node(tab.xargs.vec, 1)
    /\ res.y = Node(tab.yargs.vec, tab.ny - 1)
    /\ res.val = R(At(tab.vals, 1 * tab.ny + tab.ny - 1))

\* the offset of a inside bracket i, in units of the bracket's width
AxisOffset(vec, a, i) ==
    RDiv(RSub(a, Node(vec, i - 1)), RSub(Node(vec, i), Node(vec, i - 1)))

\* the summation range of the kernel lookup on an axis is the single node k
\* whenever the query is at node k of that axis
CollapsesAtNodes(vec, a, i) ==
    \A k \in 0 .. (Len(vec) - 1) :
        a = Node(vec, k) =>
            kernelRange(tab.interp2d, AxisOffset(vec, a, i), i, Len(vec))
                = [min |-> k, max |-> k]

\* C15: in kernel mode with a kernel that is exact at nodes, a query at a
\* grid node along an axis has the summation range of that axis collapsed to
\* that node's index, whether the bracket resolved has the node as its lower
\* or as its upper end (the last grid node included).
C15_RangeCollapsesAtEveryNode ==
    /\ res.op = "lookup2D"
    /\ tab.mode = "interpolant2d"
    /\ tab.interp2d.exact
    => /\ CollapsesAtNodes(tab.xargs.vec, res.x, res.i)
       /\ CollapsesAtNodes(tab.yargs.vec, res.y, res.j)

\* hint is a bracket index of the grid
HintInRange(av) ==
    av.lastIndex \in 1 .. (av.n - 1)

\* what a lookup of a that found the hint at hint, returned i and left the
\* hint at last may have done to the hint
HintMoved(av, a, i, hint, last) ==
    IF av.equalSpaced \/ ~ InDomain(av.vec, a)
    THEN last = hint
    ELSE /\ last = i
         /\ last \in 1 .. (av.n - 1)
         /\ IsBracket(av.vec, a, hint) => last = hint
         /\ hint >= 2 /\ RLe(Node(av.vec, hint - 2), a) /\ RLt(a, Node(av.vec, hint - 1))
                => last = hint - 1
         /\ hint <= av.n - 2 /\ RLt(Node(av.vec, hint), a) /\ RLe(a, Node(av.vec, hint + 1))
                => last = hint + 1
         /\ hint >= 3 /\ RLt(a, Node(av.vec, hint - 2))
                => /\ last \in 1 .. (hint - 2)
                   /\ RLe(Node(av.vec, last - 1), a) /\ RLt(a, Node(av.vec, last))
         /\ hint <= av.n - 3 /\ RLt(Node(av.vec, hint + 1), a)
                => /\ last \in (hint + 2) .. (av.n - 1)
                   /\ RLt(Node(av.vec, last - 1), a) /\ RLe(a, Node(av.vec, last))

\* C16: the hint of every grid stays within 1..n-1.  On a non-uniform grid,
\* after an in-domain query the hint equals the index returned: unchanged
\* when the hint's bracket holds the query, hint-1 or hint+1 when the
\* adjacent bracket holds it, and otherwise the bracket a binary search finds
\* on the side of the old hint where the query lies.  Out-of-range queries,
\* and all queries on a grid the constructor finds equally spaced, leave the
\* hint unchanged.
C16_HintFollowsLookups ==
    /\ tab.kind = "Table" => HintInRange(tab.args)
    /\ tab.kind = "Table2D" => HintInRange(tab.xargs) /\ HintInRange(tab.yargs)
    /\ res.op = "lookup" => HintMoved(tab.args, res.a, res.i, res.hint, res.last)
    /\ res.op = "call" /\ res.i # 0 => HintMoved(tab.args, res.a, res.i, res.hint, res.last)
    /\ res.op = "call" /\ res.i = 0 => res.last = res.hint
    /\ res.op = "lookup2D" =>
           /\ HintMoved(tab.xargs, res.x, res.i, res.hintx, res.lastx)
           /\ HintMoved(tab.yargs, res.y, res.j, res.hinty, res.lasty)

\* a lookup on a non-uniform grid of four nodes found the hint at 3 and
\* searched below it, leaving the hint at 1
C16_Witness ==
    /\ res.op = "lookup"
    /\ ~ tab.args.equalSpaced
    /\ tab.n = 4
    /\ res.hint = 3
    /\ RLt(res.a, Node(tab.args.vec, 1))
    /\ res.last = 1
    /\ tab.args.lastIndex = 1

\* the positions the hint of a grid can be left at by earlier calls
Hints(av) ==
    1 .. (av.n - 1)

\* the values lookup(a) gives on the table over every position of the hint
Values1D(a) ==
    {implLookup(WithHint(tab, h), a).val : h \in Hints(tab.args)}

\* the values lookup(x, y) gives over every position of the two hints, g
\* being what a read outside the value grid yields
Values2D(x, y, g) ==
    {lookup2D(WithHints(tab, hx, hy), x, y, g).val :
         hx \in Hints(tab.xargs), hy \in Hints(tab.yargs)}

\* C17: the value a lookup returns does not depend on the hint earlier calls
\* left: lookup(a) gives the same value from every position of the hint, and
\* element k of interpMany (1D and 2D) equals the scalar lookup of point k on
\* a freshly built table.
C17_ValueIndependentOfHistory ==
    /\ res.op = "lookup" => Values1D(res.a) = {res.val}
    /\ res.op = "interpMany" =>
           \A k \in 1 .. Len(res.argvec) :
               res.valvec[k] = implLookup(WithHint(tab, 1), res.argvec[k]).val
    /\ res.op = "lookup2D" =>
           \A g \in GarbageFor(tab) : Cardinality(Values2D(res.x, res.y, g)) = 1
    /\ res.op = "interpMany2D" =>
           \A k \in 1 .. Len(res.pts) : \E g \in GarbageFor(tab) :
               res.valvec[k] = lookup2D(WithHints(tab, 1, 1),
                                        res.pts[k][1], res.pts[k][2], g).val

\* the node (ix, iy) lies on the table's grid
OnGrid(q) ==
    q[1] \in 0 .. (tab.nx - 1) /\ q[2] \in 0 .. (tab.ny - 1)

\* the bracket (i, j) leaves no two nodes of margin on some side
NoMargin(i, j) ==
    i < 2 \/ i > tab.nx - 2 \/ j < 2 \/ j > tab.ny - 2

\* C18: a lookup or a gradient reads a node outside 0 <= ix < Nx,
\* 0 <= iy < Ny if and only if the mode is cubic convolution and the bracket
\* resolved has i < 2, i > Nx-2, j < 2 or j > Ny-2; every other mode reads
\* only nodes of the grid for every query, in or out of the domain; the
\* kernel mode keeps its summation range on the grid and returns 0 when the
\* clamped range is empty.  (A node (ix, iy) is read as element ix*Ny+iy; a
\* convolution whose stencil is on the grid returns a value that does not
\* depend on what lies outside the array.)
C18_ReadsOutsideGridOnlyConvolve ==
    /\ res.op = "lookup2D" =>
           /\ (\E q \in interpReads(tab, res.x, res.y, res.i, res.j) : ~ OnGrid(q))
                  <=> (tab.mode = "cubicConvolve" /\ NoMargin(res.i, res.j))
           /\ tab.mode = "interpolant2d"
                  /\ interpReads(tab, res.x, res.y, res.i, res.j) = {}
                  => res.val = Zero
           /\ tab.mode = "cubicConvolve" /\ ~ NoMargin(res.i, res.j)
                  => \A g \in Garbage :
                         interp(tab, res.x, res.y, res.i, res.j, g) = res.val
    /\ res.op = "gradient" =>
           (\E q \in gradReads(tab, res.i, res.j) : ~ OnGrid(q))
               <=> (tab.mode = "cubicConvolve" /\ NoMargin(res.i, res.j))

\* a cubic-convolution lookup on the largest grid whose bracket has the margin
\* on both axes, so that it read the grid only
C18_Witness ==
    /\ res.op = "lookup2D"
    /\ tab.mode = "cubicConvolve"
    /\ ~ NoMargin(res.i, res.j)
    /\ \A q \in interpReads(tab, res.x, res.y, res.i, res.j) : OnGrid(q)

\* h[i] = x[i+1] - x[i]
Width(vec, i) ==
    RSub(Node(vec, i + 1), Node(vec, i))

\* (y[i+1] - y[i]) / (x[i+1] - x[i])
Chord(vec, vals, i) ==
    RDiv(RSub(R(At(vals, i + 1)), R(At(vals, i))), Width(vec, i))

\* row i of the natural-spline system, in the arithmetic of the reals
SplineRowHolds(vec, vals, y2, i) ==
    RAdd(RAdd(RMul(Width(vec, i - 1), At(y2, i - 1)),
              RMul(RMul(R(2), RSub(Node(vec, i + 1), Node(vec, i - 1))), At(y2, i))),
         RMul(Width(vec, i), At(y2, i + 1)))
        = RMul(R(6), RSub(Chord(vec, vals, i), Chord(vec, vals, i - 1)))

\* the spline table of the worked example: args 0, 1, 2, 3, vals 0, 1, 4, 9
IsExampleSpline ==
    /\ tab.kind = "Table"
    /\ tab.iType = "spline"
    /\ tab.args.prec = 0
    /\ tab.args.vec = <<0, 1, 2, 3>>
    /\ tab.vals = <<0, 1, 4, 9>>

\* C19: in exact arithmetic the y2 that setupSpline leaves satisfy
\* y2[0] = y2[n-1] = 0 and, for i = 1..n-2,
\* h[i-1]*y2[i-1] + 2*(x[i+1]-x[i-1])*y2[i] + h[i]*y2[i+1]
\*     = 6*((y[i+1]-y[i])/(x[i+1]-x[i]) - (y[i]-y[i-1])/(x[i]-x[i-1])),
\* by the tridiagonal solve for n >= 4 and by the closed form for n = 3;
\* args 0,1,2,3 with vals 0,1,4,9 give y2 = 0, 2.4, 2.4, 0.
C19_SplineSystemSolved ==
    /\ tab.kind = "Table" /\ tab.iType = "spline" /\ tab.args.prec = 0 /\ tab.n >= 3 =>
           /\ At(tab.y2, 0) = Zero
           /\ At(tab.y2, tab.n - 1) = Zero
           /\ \A i \in 1 .. (tab.n - 2) :
                  SplineRowHolds(tab.args.vec, tab.vals, tab.y2, i)
    /\ IsExampleSpline => tab.y2 = <<Zero, <<12, 5>>, <<12, 5>>, Zero>>

\* the example table has been built, with y2[1] = 2.4
C19_Witness ==
    /\ IsExampleSpline
    /\ res.op = "Table"
    /\ At(tab.y2, 1) = <<12, 5>>

=============================================================================
